---- MODULE Spec2Model ----
(***************************************************************************)
(* Model of the calendar availability engine of CalendarManager            *)
(* (src/models/calendar_manager.py).                                       *)
(*                                                                         *)
(* A datetime is an integer: the number of seconds on the wall clock of    *)
(* self.zone since 00:00:00 of a Monday (day 0).  Callers hand the engine  *)
(* naive datetimes or datetimes already in self.zone, so every datetime of *)
(* the model is a reading of that one clock.  Microseconds are not kept.   *)
(***************************************************************************)
EXTENDS Integers, Sequences, FiniteSets

\* ------------------------------------------------------------------ bounds
\* The calendar of a run holds at most MaxEvents events of EventPool.
MaxEvents == 2

\* -------------------------------------------------------- program constants
\* self.start_hour, self.end_hour (__init__), the default buffer_minutes of
\* _compute_free_slots, and the default number_of_days of the lookahead.
StartHour == 9
EndHour == 18
BufferMinutes == 30
DefaultNumberOfDays == 7

\* ------------------------------------------------------- datetime helpers
Seconds(h, m, s) == h * 3600 + m * 60 + s
Days(n) == n * 86400
\* datetime(day, h, m, s)
At(day, h, m, s) == Days(day) + Seconds(h, m, s)

\* dt.date(), dt.hour, dt.minute, dt.second, dt.weekday() (Monday is 0)
DateOf(dt) == dt \div 86400
HourOf(dt) == (dt % 86400) \div 3600
MinuteOf(dt) == (dt % 3600) \div 60
SecondOf(dt) == dt % 60
WeekdayOf(dt) == DateOf(dt) % 7

\* dt.replace(hour=h, minute=0, second=0, microsecond=0)
ReplaceHour(dt, h) == Days(DateOf(dt)) + Seconds(h, 0, 0)

\* (a - b).days of a timedelta: the floor of the difference in whole days
TimedeltaDays(a, b) == (a - b) \div 86400

Max(a, b) == IF a >= b THEN a ELSE b
Min(a, b) == IF a <= b THEN a ELSE b

\* The value None of an omitted time_max.
None == -1

\* _to_local: a naive datetime gets self.zone attached, a datetime of
\* self.zone is converted to self.zone; the wall-clock reading is kept.
ToLocal(dt) == dt

\* ------------------------------------------------------ _compute_free_slots
\* new_busy_slots: every busy slot widened by the buffer on both ends.
BufferBusy(busy_slots, buffer_minutes) ==
    [i \in DOMAIN busy_slots |->
        [start |-> busy_slots[i].start - buffer_minutes * 60,
         end   |-> busy_slots[i].end + buffer_minutes * 60]]

\* busy_for_day: the widened slots that start on the day of the window,
\* clipped to the window.
BusyForDay(new_busy_slots, day) ==
    LET OnDay(slot) == DateOf(slot.start) = DateOf(day.start)
        sel == SelectSeq(new_busy_slots, OnDay)
    IN  [i \in DOMAIN sel |->
            [start |-> Max(sel[i].start, day.start),
             end   |-> Min(sel[i].end, day.end)]]

\* list.sort(key=start): a stable sort by start.
RECURSIVE InsertByStart(_, _)
InsertByStart(sorted, x) ==
    IF sorted = <<>> THEN <<x>>
    ELSE IF sorted[Len(sorted)].start <= x.start THEN Append(sorted, x)
    ELSE Append(InsertByStart(SubSeq(sorted, 1, Len(sorted) - 1), x),
                sorted[Len(sorted)])

RECURSIVE SortByStart(_)
SortByStart(s) ==
    IF s = <<>> THEN <<>>
    ELSE InsertByStart(SortByStart(SubSeq(s, 1, Len(s) - 1)), s[Len(s)])

\* The sweep over the sorted busy slots of one day, from position i with
\* the cursor at current: the free slots emitted and the final cursor.
RECURSIVE Sweep(_, _, _)
Sweep(busy_for_day, i, current) ==
    IF i > Len(busy_for_day) THEN [free |-> <<>>, current |-> current]
    ELSE LET slot == busy_for_day[i]
             emitted == IF current < slot.start
                        THEN <<[start |-> current, end |-> slot.start]>>
                        ELSE <<>>
             rest == Sweep(busy_for_day, i + 1, Max(current, slot.end))
         IN  [free |-> emitted \o rest.free, current |-> rest.current]

\* Mutant of FreeSlotsOfDay: the slot after the last busy interval is lost.
FreeSlotsOfDayNoTail(day, new_busy_slots) ==
    Sweep(SortByStart(BusyForDay(new_busy_slots, day)), 1, day.start).free

\* The body of the loop over available_days for one day.
FreeSlotsOfDay(day, new_busy_slots) ==
    LET busy_for_day == SortByStart(BusyForDay(new_busy_slots, day))
        sw == Sweep(busy_for_day, 1, day.start)
    IN  sw.free \o (IF sw.current < day.end
                    THEN <<[start |-> sw.current, end |-> day.end]>>
                    ELSE <<>>)

RECURSIVE FreeSlotsOfDays(_, _, _)
FreeSlotsOfDays(available_days, i, new_busy_slots) ==
    IF i > Len(available_days) THEN <<>>
    ELSE FreeSlotsOfDay(available_days[i], new_busy_slots)
         \o FreeSlotsOfDays(available_days, i + 1, new_busy_slots)

ComputeFreeSlots(available_days, busy_slots, buffer_minutes) ==
    FreeSlotsOfDays(available_days, 1, BufferBusy(busy_slots, buffer_minutes))

\* ------------------------------------------------------------- formatting
\* _format_date: strftime("%Y-%m-%d %H:%M:%S %z"), field by field.
FormatDate(dt) ==
    [date |-> DateOf(dt), hh |-> HourOf(dt), mm |-> MinuteOf(dt),
     ss |-> SecondOf(dt), z |-> "zone"]

FormatSlotsToStr(slots) ==
    [i \in DOMAIN slots |->
        [start |-> FormatDate(slots[i].start), end |-> FormatDate(slots[i].end)]]

\* Mutant of CheckValidDateAndHourRange: the clamp replaces the hour alone
\* and keeps the minutes and seconds.
ClampKeepsMinutes(date_to_check) ==
    IF HourOf(date_to_check) < StartHour
    THEN date_to_check + (StartHour - HourOf(date_to_check)) * 3600
    ELSE IF HourOf(date_to_check) > EndHour
    THEN date_to_check - (HourOf(date_to_check) - EndHour) * 3600
    ELSE date_to_check

\* ------------------------------------------ _check_valid_date_and_hour_range
CheckValidDateAndHourRange(date_to_check) ==
    IF HourOf(date_to_check) < StartHour
    THEN ReplaceHour(date_to_check, StartHour)
    ELSE IF HourOf(date_to_check) > EndHour
    THEN ReplaceHour(date_to_check, EndHour)
    ELSE date_to_check

\* ------------------------------------------------- the calendar service
\* The events the external calendar can hold: day 4 is a Friday, day 5 a
\* Saturday.  Two morning meetings, an afternoon meeting, a meeting that
\* ends at end_hour, an evening event, a meeting a quarter of an hour after
\* the first morning meeting that overlaps the second, a Saturday event, an
\* event from Sunday evening to Monday morning (day 7 is a Monday), and a
\* short meeting that ends five minutes before 17:00.
EventPool ==
    { [start |-> At(4, 10, 0, 0),  end |-> At(4, 10, 30, 0)],
      [start |-> At(4, 11, 30, 0), end |-> At(4, 12, 0, 0)],
      [start |-> At(4, 13, 30, 0), end |-> At(4, 14, 30, 0)],
      [start |-> At(4, 17, 0, 0),  end |-> At(4, 18, 0, 0)],
      [start |-> At(4, 19, 0, 0),  end |-> At(4, 20, 0, 0)],
      [start |-> At(4, 10, 45, 0), end |-> At(4, 11, 45, 0)],
      [start |-> At(5, 9, 0, 0),   end |-> At(5, 9, 30, 0)],
      [start |-> At(6, 23, 0, 0),  end |-> At(7, 10, 0, 0)],
      [start |-> At(4, 16, 30, 0), end |-> At(4, 16, 55, 0)] }

Calendars == { c \in SUBSET EventPool : Cardinality(c) <= MaxEvents }

\* The response lists the busy periods in chronological order.
RECURSIVE ChronologicalOrder(_)
ChronologicalOrder(S) ==
    IF S = {} THEN <<>>
    ELSE LET first == CHOOSE x \in S : \A y \in S :
                          \/ x.start < y.start
                          \/ (x.start = y.start /\ x.end <= y.end)
         IN  <<first>> \o ChronologicalOrder(S \ {first})

\* service.freebusy().query(timeMin, timeMax, items=[calendar_id]): the busy
\* periods of the calendar that meet [timeMin, timeMax), cut to that range.
FreeBusyQuery(cal, timeMin, timeMax) ==
    ChronologicalOrder(
        { [start |-> Max(ev.start, timeMin), end |-> Min(ev.end, timeMax)] :
            ev \in { x \in cal : x.start < timeMax /\ x.end > timeMin } })

\* The service answers an empty time range with an error (HttpError 400).
QueryAccepted(timeMin, timeMax) == timeMin < timeMax

\* ------------------------------------------------------------ return values
\* What an operation hands back: a list of slots, a string (the f-string's
\* fixed text named by msg, its interpolated values in a, b and slots), or
\* an exception raised to the caller.
ListResult(slots) ==
    [kind |-> "list", msg |-> "", a |-> 0, b |-> 0, slots |-> slots]
StrResult(msg, a, b, slots) ==
    [kind |-> "str", msg |-> msg, a |-> a, b |-> b, slots |-> slots]
RaiseResult(msg) ==
    [kind |-> "raise", msg |-> msg, a |-> 0, b |-> 0, slots |-> <<>>]

\* `slots and isinstance(slots, list) and len(slots) > 0`
IsNonEmptyList(r) == r.kind = "list" /\ r.slots # <<>>

\* --------------------------------------------------- _list_available_events
\* available_times before the sweep: one window per i in
\* range((end_time - start_time).days + 1), then the two overrides.
AvailableTimes(start_time, end_time) ==
    LET n == TimedeltaDays(end_time, start_time) + 1
        s == ReplaceHour(start_time, StartHour)
        e == ReplaceHour(start_time, EndHour)
        built == [i \in 1..n |-> [start |-> s + Days(i - 1), end |-> e + Days(i - 1)]]
        first == [built EXCEPT ![1].start = start_time]
    IN  [first EXCEPT ![n].end = end_time]

\* Mutant of DurationFilter: the one-hour minimum is applied whatever the
\* number of candidate slots.
DurationFilterAlways(slots) ==
    LET LongEnough(slot) == slot.end - slot.start >= Seconds(1, 0, 0)
    IN  SelectSeq(slots, LongEnough)

\* `if len(available_times) > 2:` keep the slots of at least one hour.
DurationFilter(slots) ==
    LET LongEnough(slot) == slot.end - slot.start >= Seconds(1, 0, 0)
    IN  IF Len(slots) > 2 THEN SelectSeq(slots, LongEnough) ELSE slots

\* Mutant of WeekendFilter: no slot is dropped.
WeekendFilterOff(slots) == slots

\* keep the slots that start on a weekday
WeekendFilter(slots) ==
    LET OnWeekday(slot) == WeekdayOf(slot.start) < 5
    IN  SelectSeq(slots, OnWeekday)

\* One call of _list_available_events against calendar cal; service_ok says
\* whether the service is reachable for this fetch.  The record keeps the
\* locals of the call and, in out, what the call returns or raises.
ListAvailableEvents(cal, time_min, time_max, service_ok) ==
    LET start_time == ToLocal(CheckValidDateAndHourRange(time_min))
        end_time_input == IF time_max # None THEN time_max ELSE time_min
        end_time == ToLocal(CheckValidDateAndHourRange(end_time_input))
        end_temp == Days(DateOf(end_time)) + Days(1)
        fetched == service_ok /\ QueryAccepted(start_time, end_temp)
        busy_times == IF fetched THEN FreeBusyQuery(cal, start_time, end_temp)
                      ELSE <<>>
        n == TimedeltaDays(end_time, start_time) + 1
        indexable == fetched /\ n >= 1
        windows == IF indexable THEN AvailableTimes(start_time, end_time) ELSE <<>>
        candidates == IF indexable
                      THEN ComputeFreeSlots(windows, busy_times, BufferMinutes)
                      ELSE <<>>
        out == IF ~fetched THEN RaiseResult("RuntimeError: fetch failed")
               ELSE IF ~indexable
               THEN RaiseResult("RuntimeError: list index out of range")
               ELSE ListResult(WeekendFilter(DurationFilter(candidates)))
    IN  [time_min |-> time_min, time_max |-> time_max,
         start_time |-> start_time, end_time |-> end_time,
         fetched |-> fetched, busy_times |-> busy_times,
         windows |-> windows, candidates |-> candidates, out |-> out]

\* The fetches of one operation are numbered 1, 2, 3 in the order they are
\* issued; fail_at = 0 says the service answers all of them, fail_at = k > 0
\* that it is unreachable from the k-th fetch on.
ServiceOk(k, fail_at) == fail_at = 0 \/ k < fail_at

\* ------------------------------------------ _find_available_slots_after_date
\* Mutant of AdvanceBusinessDays: every day is counted, weekend or not.
AdvanceCalendarDays(end_candidate, business_days, number_of_days) ==
    IF business_days < number_of_days
    THEN end_candidate + Days(number_of_days - business_days)
    ELSE end_candidate

\* The while loop: advance a day at a time until number_of_days weekdays
\* have been counted.
RECURSIVE AdvanceBusinessDays(_, _, _)
AdvanceBusinessDays(end_candidate, business_days, number_of_days) ==
    IF business_days < number_of_days
    THEN LET next == end_candidate + Days(1)
         IN  AdvanceBusinessDays(next,
                 IF WeekdayOf(next) < 5 THEN business_days + 1 ELSE business_days,
                 number_of_days)
    ELSE end_candidate

\* Mutant of LookaheadOnException: the exception is raised again.
LookaheadReraise(raised) == raised

\* `except Exception as e: return f"An error occurred ...: {e}"`
LookaheadOnException(raised) ==
    StrResult("An error occurred while finding available slots", 0, 0, <<>>)

\* The lookahead, its range query being fetch number k of the operation.
FindAvailableSlotsAfterDate(cal, specific_date, number_of_days, k, fail_at) ==
    LET start_of_day == CheckValidDateAndHourRange(specific_date)
        end_candidate == AdvanceBusinessDays(start_of_day, 0, number_of_days)
        end_of_day == ReplaceHour(end_candidate, EndHour)
        call == ListAvailableEvents(cal, start_of_day, end_of_day, ServiceOk(k, fail_at))
        result ==
            IF call.out.kind = "raise" THEN LookaheadOnException(call.out)
            ELSE IF call.out.slots # <<>>
            THEN StrResult("No available slots were found on. However, here are the available slots until",
                           DateOf(specific_date), DateOf(end_of_day),
                           FormatSlotsToStr(call.out.slots))
            ELSE StrResult("No available slots were found on or in the following week until",
                           DateOf(specific_date), DateOf(end_of_day), <<>>)
    IN  [result |-> result, calls |-> <<call>>]

\* Mutant of FindAvailableBySpecificDate: the query starts at the time of
\* day of specific_date instead of start_hour.
FindAvailableBySpecificDateFromGivenTime(cal, specific_date, fail_at) ==
    LET call == ListAvailableEvents(cal, specific_date,
                                    ReplaceHour(specific_date, EndHour),
                                    ServiceOk(1, fail_at))
        after == FindAvailableSlotsAfterDate(cal, specific_date,
                                             DefaultNumberOfDays, 2, fail_at)
    IN  IF call.out.kind = "raise"
        THEN [result |-> call.out, calls |-> <<call>>]
        ELSE IF IsNonEmptyList(call.out)
        THEN [result |-> ListResult(FormatSlotsToStr(call.out.slots)),
              calls |-> <<call>>]
        ELSE [result |-> after.result, calls |-> <<call>> \o after.calls]

\* ------------------------------------------- find_available_by_specific_date
\* No try block: what _list_available_events raises leaves the operation.
FindAvailableBySpecificDate(cal, specific_date, fail_at) ==
    LET start == ReplaceHour(specific_date, StartHour)
        end == ReplaceHour(specific_date, EndHour)
        call == ListAvailableEvents(cal, start, end, ServiceOk(1, fail_at))
        after == FindAvailableSlotsAfterDate(cal, specific_date,
                                             DefaultNumberOfDays, 2, fail_at)
    IN  IF call.out.kind = "raise"
        THEN [result |-> call.out, calls |-> <<call>>]
        ELSE IF IsNonEmptyList(call.out)
        THEN [result |-> ListResult(FormatSlotsToStr(call.out.slots)),
              calls |-> <<call>>]
        ELSE [result |-> after.result, calls |-> <<call>> \o after.calls]

\* ---------------------------------------------- find_available_by_date_range
\* `except Exception as e: return f"An error occurred ...: {e}"`
RangeOnException(raised) ==
    StrResult("An error occurred while finding available slots", 0, 0, <<>>)

\* Mutant of FindAvailableByDateRange: on the empty path the outcome of the
\* lookahead is returned.
FindAvailableByDateRangeReturnsFallback(cal, start_date, end_date, fail_at) ==
    LET start == CheckValidDateAndHourRange(start_date)
        end == CheckValidDateAndHourRange(end_date)
        same_day == DateOf(start) = DateOf(end)
        first == ListAvailableEvents(cal, start, end, ServiceOk(1, fail_at))
        k == IF same_day THEN 2 ELSE 1
        before == IF same_day THEN <<first>> ELSE <<>>
        second == ListAvailableEvents(cal, start, end, ServiceOk(k, fail_at))
        after == FindAvailableSlotsAfterDate(cal, end, DefaultNumberOfDays,
                                             k + 1, fail_at)
    IN  IF same_day /\ first.out.kind = "raise"
        THEN [result |-> RangeOnException(first.out), calls |-> <<first>>]
        ELSE IF same_day /\ IsNonEmptyList(first.out)
        THEN [result |-> ListResult(FormatSlotsToStr(first.out.slots)),
              calls |-> <<first>>]
        ELSE IF second.out.kind = "raise"
        THEN [result |-> RangeOnException(second.out),
              calls |-> before \o <<second>>]
        ELSE IF IsNonEmptyList(second.out)
        THEN [result |-> ListResult(FormatSlotsToStr(second.out.slots)),
              calls |-> before \o <<second>>]
        ELSE [result |-> after.result,
              calls |-> before \o <<second>> \o after.calls]

FindAvailableByDateRange(cal, start_date, end_date, fail_at) ==
    LET start == CheckValidDateAndHourRange(start_date)
        end == CheckValidDateAndHourRange(end_date)
        same_day == DateOf(start) = DateOf(end)
        \* the query of the `if start.date() == end.date()` branch
        first == ListAvailableEvents(cal, start, end, ServiceOk(1, fail_at))
        k == IF same_day THEN 2 ELSE 1
        before == IF same_day THEN <<first>> ELSE <<>>
        second == ListAvailableEvents(cal, start, end, ServiceOk(k, fail_at))
        after == FindAvailableSlotsAfterDate(cal, end, DefaultNumberOfDays,
                                             k + 1, fail_at)
    IN  IF same_day /\ first.out.kind = "raise"
        THEN [result |-> RangeOnException(first.out), calls |-> <<first>>]
        ELSE IF same_day /\ IsNonEmptyList(first.out)
        THEN [result |-> ListResult(FormatSlotsToStr(first.out.slots)),
              calls |-> <<first>>]
        ELSE IF second.out.kind = "raise"
        THEN [result |-> RangeOnException(second.out),
              calls |-> before \o <<second>>]
        ELSE IF IsNonEmptyList(second.out)
        THEN [result |-> ListResult(FormatSlotsToStr(second.out.slots)),
              calls |-> before \o <<second>>]
        ELSE [result |-> StrResult("No available slots were found between",
                                   start_date, end_date, <<>>),
              calls |-> before \o <<second>> \o after.calls]

\* ----------------------------------------------- find_available_without_date
\* The anchor of the query for a current time now = datetime.now().
AnchorDate(now) ==
    LET start_date ==
            IF HourOf(now) >= EndHour
            THEN ReplaceHour(now + Days(1), StartHour)
            ELSE IF HourOf(now) < StartHour
            THEN ReplaceHour(now, StartHour)
            ELSE now
    IN  CheckValidDateAndHourRange(start_date)

WithoutDateOnException(raised) ==
    StrResult("An error occurred while finding available slots", 0, 0, <<>>)

FindAvailableWithoutDate(cal, now, fail_at) ==
    LET start_date == AnchorDate(now)
        end_date_one_week == start_date + Days(7)
        end_date_two_weeks == start_date + Days(14)
        first == ListAvailableEvents(cal, start_date, end_date_one_week,
                                     ServiceOk(1, fail_at))
        second == ListAvailableEvents(cal, start_date, end_date_two_weeks,
                                      ServiceOk(2, fail_at))
    IN  IF first.out.kind = "raise"
        THEN [result |-> WithoutDateOnException(first.out), calls |-> <<first>>]
        ELSE IF IsNonEmptyList(first.out)
        THEN [result |-> ListResult(FormatSlotsToStr(first.out.slots)),
              calls |-> <<first>>]
        ELSE IF second.out.kind = "raise"
        THEN [result |-> WithoutDateOnException(second.out),
              calls |-> <<first, second>>]
        ELSE IF IsNonEmptyList(second.out)
        THEN [result |-> ListResult(FormatSlotsToStr(second.out.slots)),
              calls |-> <<first, second>>]
        ELSE [result |-> StrResult("No available slots were found in the next two weeks",
                                   0, 0, <<>>),
              calls |-> <<first, second>>]

\* ------------------------------------------------------ confirmation_meeting
\* The callers that may be inside confirmation_meeting at the same time (the
\* endpoint runs each request on its own worker thread).
Callers == {1, 2}

\* The number of confirmation_meeting calls of one run.
MaxBookings == 2

\* `.lower()` on the e-mail addresses of the model.
Lower(email) == IF email = "Bob@x.com" THEN "bob@x.com" ELSE email

\* `(mode or "").strip().lower()` on the modes of the model.
StripLower(mode) == IF mode = " Online " THEN "online" ELSE mode

\* The events the calendar can hold on the Friday of a booking: two
\* "Available" events of the window 14:00-15:00, the second starting thirty
\* seconds later and with two attendees, a meeting that overlaps the window,
\* an "Available" event of another window, and a block of the window whose
\* title contains "Available" without being it.
BookingPool ==
    { [id |-> 1, summary |-> "Available",
       start |-> At(4, 14, 0, 0), end |-> At(4, 15, 0, 0),
       description |-> <<>>, attendees |-> <<>>, conferenceData |-> FALSE],
      [id |-> 2, summary |-> "Available",
       start |-> At(4, 14, 0, 30), end |-> At(4, 15, 0, 0),
       description |-> <<>>, attendees |-> <<"amy@x.com", "Bob@x.com">>,
       conferenceData |-> FALSE],
      [id |-> 3, summary |-> "Team sync",
       start |-> At(4, 14, 30, 0), end |-> At(4, 15, 30, 0),
       description |-> <<>>, attendees |-> <<"amy@x.com">>,
       conferenceData |-> FALSE],
      [id |-> 4, summary |-> "Available",
       start |-> At(4, 16, 0, 0), end |-> At(4, 17, 0, 0),
       description |-> <<>>, attendees |-> <<>>, conferenceData |-> FALSE],
      [id |-> 5, summary |-> "Not Available",
       start |-> At(4, 14, 0, 0), end |-> At(4, 15, 0, 0),
       description |-> <<>>, attendees |-> <<>>, conferenceData |-> FALSE] }

BookingCalendars == { c \in SUBSET BookingPool : Cardinality(c) <= MaxEvents }

NoEvent ==
    [id |-> 0, summary |-> "", start |-> None, end |-> None,
     description |-> <<>>, attendees |-> <<>>, conferenceData |-> FALSE]

\* service.events().list(timeMin, timeMax, singleEvents=True,
\* orderBy="startTime"): the events that meet [timeMin, timeMax), by start.
RECURSIVE OrderByStartTime(_)
OrderByStartTime(S) ==
    IF S = {} THEN <<>>
    ELSE LET first == CHOOSE x \in S : \A y \in S :
                          \/ x.start < y.start
                          \/ (x.start = y.start /\ x.id <= y.id)
         IN  <<first>> \o OrderByStartTime(S \ {first})

EventsList(cal, timeMin, timeMax) ==
    OrderByStartTime({ ev \in cal : ev.start < timeMax /\ ev.end > timeMin })

\* Mutant of IsAvailable: the title is not looked at.
IsAvailableAnyTitle(ev, time_min_rfc, time_max_rfc) ==
    /\ DateOf(ev.start) = DateOf(time_min_rfc)
    /\ DateOf(ev.end) = DateOf(time_max_rfc)
    /\ HourOf(ev.start) = HourOf(time_min_rfc)
    /\ HourOf(ev.end) = HourOf(time_max_rfc)
    /\ MinuteOf(ev.start) = MinuteOf(time_min_rfc)
    /\ MinuteOf(ev.end) = MinuteOf(time_max_rfc)

\* The test that puts an event of the list into `availables`.
IsAvailable(ev, time_min_rfc, time_max_rfc) ==
    /\ ev.summary = "Available"
    /\ DateOf(ev.start) = DateOf(time_min_rfc)
    /\ DateOf(ev.end) = DateOf(time_max_rfc)
    /\ HourOf(ev.start) = HourOf(time_min_rfc)
    /\ HourOf(ev.end) = HourOf(time_max_rfc)
    /\ MinuteOf(ev.start) = MinuteOf(time_min_rfc)
    /\ MinuteOf(ev.end) = MinuteOf(time_max_rfc)

\* Mutant of Availables: every event of the day of time_min is kept.
AvailablesUnfiltered(cal, time_min_rfc, time_max_rfc) ==
    LET start_s == At(DateOf(time_min_rfc), 0, 0, 0)
        end_e == start_s + Days(1)
    IN  EventsList(cal, start_s, end_e)

\* `availables`: the events of the day of time_min that pass the test.
Availables(cal, time_min_rfc, time_max_rfc) ==
    LET start_s == At(DateOf(time_min_rfc), 0, 0, 0)
        end_e == start_s + Days(1)
    IN  SelectSeq(EventsList(cal, start_s, end_e),
                  LAMBDA ev : IsAvailable(ev, time_min_rfc, time_max_rfc))

AddDesc(mode_norm) ==
    IF mode_norm = "presentiel"
    THEN "Meeting in person at the office."
    ELSE "Meeting online meeting (Google Meet)."

\* The description as a sequence of sentences.
PatchedDescription(description, mode_norm) ==
    IF \E i \in DOMAIN description : description[i] = AddDesc(mode_norm)
    THEN description
    ELSE Append(description, AddDesc(mode_norm))

\* Mutant of PatchedAttendees: the e-mails are compared as written.
PatchedAttendeesCaseSensitive(attendees, invite_email) ==
    IF invite_email # ""
       /\ invite_email \notin { attendees[i] : i \in DOMAIN attendees }
    THEN Append(attendees, invite_email)
    ELSE attendees

PatchedAttendees(attendees, invite_email) ==
    LET emails_existants == { Lower(attendees[i]) : i \in DOMAIN attendees }
    IN  IF invite_email # "" /\ Lower(invite_email) \notin emails_existants
        THEN Append(attendees, invite_email)
        ELSE attendees

BodyPatch(chosen, invite_email, titre, mode_norm) ==
    [summary |-> titre,
     description |-> PatchedDescription(chosen.description, mode_norm),
     attendees |-> PatchedAttendees(chosen.attendees, invite_email),
     conferenceData |-> mode_norm = "online"]

NoBody ==
    [summary |-> "", description |-> <<>>, attendees |-> <<>>,
     conferenceData |-> FALSE]

\* service.events().patch(eventId=event_id, body=body_patch): the fields of
\* the body replace those of the event.
PatchEvent(cal, event_id, body_patch) ==
    { IF ev.id = event_id
      THEN [ev EXCEPT !.summary = body_patch.summary,
                      !.description = body_patch.description,
                      !.attendees = body_patch.attendees,
                      !.conferenceData = ev.conferenceData
                                           \/ body_patch.conferenceData]
      ELSE ev : ev \in cal }

Failure(error) == [success |-> FALSE, error |-> error, event |-> ""]
Success ==
    [success |-> TRUE, error |-> "",
     event |-> "The event has been successfully updated."]
NoOutcome == [success |-> FALSE, error |-> "", event |-> ""]

\* Steps 1 to 4 of confirmation_meeting, up to the patch request: where the
\* call stands afterwards, the event it chose, the body it prepared, and what
\* it returned if it has returned.
SearchAndPrepare(cal, time_min, time_max, invite_email, titre, mode, list_ok) ==
    LET time_min_rfc == time_min
        time_max_rfc == time_max
        items == Availables(cal, time_min_rfc, time_max_rfc)
        chosen == items[1]
        mode_norm == StripLower(mode)
    IN  IF ~list_ok
        THEN [pc |-> "done", chosen |-> NoEvent, body_patch |-> NoBody,
              result |-> Failure("Error while searching events")]
        ELSE IF items = <<>>
        THEN [pc |-> "done", chosen |-> NoEvent, body_patch |-> NoBody,
              result |-> Failure("No event found in the provided time window.")]
        ELSE IF mode_norm \notin {"online", "presentiel"}
        THEN [pc |-> "done", chosen |-> chosen, body_patch |-> NoBody,
              result |-> Failure("Invalid 'mode'. Use 'online' or 'presentiel'.")]
        ELSE [pc |-> "patching", chosen |-> chosen,
              body_patch |-> BodyPatch(chosen, invite_email, titre, mode_norm),
              result |-> NoOutcome]

\* The window, guests, titles and modes the callers ask for.
BookingWindows == { [start |-> At(4, 14, 0, 0), end |-> At(4, 15, 0, 0)] }
EmailInputs == { "bob@x.com", "cat@x.com" }
TitleInputs == { "Available", "Intro call" }
ModeInputs == { "presentiel", " Online ", "phone" }

NoBookingArgs ==
    [time_min |-> None, time_max |-> None, invite_email |-> "", titre |-> "",
     mode |-> ""]
NoBooking ==
    [pc |-> "idle", args |-> NoBookingArgs, chosen |-> NoEvent,
     body_patch |-> NoBody, result |-> NoOutcome]

\* ------------------------------------------------------------------ inputs
\* The days the callers ask about: a Friday, the Saturday after it and the
\* Monday after that.
QueryDays == {4, 5, 7}

\* Times of day around the business hours: before start_hour with minutes
\* and seconds set, start_hour, late morning, late afternoon, exactly
\* end_hour, within the hour of end_hour, and after it.
TimesOfDay ==
    { Seconds(8, 30, 15), Seconds(9, 0, 0), Seconds(11, 30, 0),
      Seconds(17, 0, 0), Seconds(18, 0, 0), Seconds(18, 30, 0),
      Seconds(19, 15, 20) }

DateInputs == { Days(d) + t : d \in QueryDays, t \in TimesOfDay }

\* The clamp is also tried on the hour before start_hour.
ClampInputs == DateInputs \cup { At(d, 8, 0, 0) : d \in QueryDays }

NumberOfDaysInputs == {1, DefaultNumberOfDays}

\* An operation issues at most three fetches.
FailAtInputs == 0..3

NoArgs == [a |-> None, b |-> None, n |-> 0, fail_at |-> 0]
NoResult == [kind |-> "none", msg |-> "", a |-> 0, b |-> 0, slots |-> <<>>]
DatetimeResult(dt) ==
    [kind |-> "datetime", msg |-> "", a |-> dt, b |-> 0, slots |-> <<>>]

\* ------------------------------------------------------------------- state
VARIABLES
    calendar,   \* the events of the external calendar
    pc,         \* "idle": the agent may call a tool; "done": a call has ended
    op,         \* the operation of the call that ended last
    args,       \* its arguments
    result,     \* what it returned or raised
    calls,      \* the _list_available_events calls it made, in order
    booking,    \* per caller, the confirmation_meeting call it is in
    started     \* the number of confirmation_meeting calls begun so far

vars == <<calendar, pc, op, args, result, calls, booking, started>>

Init ==
    /\ calendar \in Calendars
    /\ pc = "idle"
    /\ op = "none"
    /\ args = NoArgs
    /\ result = NoResult
    /\ calls = <<>>
    /\ booking = [c \in Callers |-> NoBooking]
    /\ started = 0

\* _check_valid_date_and_hour_range(date_to_check)
CallCheckValidDateAndHourRange ==
    \E d \in ClampInputs :
        /\ pc = "idle"
        /\ pc' = "done"
        /\ op' = "_check_valid_date_and_hour_range"
        /\ args' = [NoArgs EXCEPT !.a = d]
        /\ result' = DatetimeResult(CheckValidDateAndHourRange(d))
        /\ calls' = <<>>
        /\ UNCHANGED <<calendar, booking, started>>

\* _list_available_events(time_min, time_max)
CallListAvailableEvents ==
    \E time_min \in DateInputs, time_max \in DateInputs \cup {None},
       fail_at \in 0..1 :
        LET call == ListAvailableEvents(calendar, time_min, time_max,
                                        ServiceOk(1, fail_at))
        IN  /\ pc = "idle"
            /\ pc' = "done"
            /\ op' = "_list_available_events"
            /\ args' = [NoArgs EXCEPT !.a = time_min, !.b = time_max,
                                      !.fail_at = fail_at]
            /\ result' = call.out
            /\ calls' = <<call>>
            /\ UNCHANGED <<calendar, booking, started>>

\* _find_available_slots_after_date(specific_date, number_of_days)
CallFindAvailableSlotsAfterDate ==
    \E d \in DateInputs, n \in NumberOfDaysInputs, fail_at \in 0..1 :
        LET r == FindAvailableSlotsAfterDate(calendar, d, n, 1, fail_at)
        IN  /\ pc = "idle"
            /\ pc' = "done"
            /\ op' = "_find_available_slots_after_date"
            /\ args' = [NoArgs EXCEPT !.a = d, !.n = n, !.fail_at = fail_at]
            /\ result' = r.result
            /\ calls' = r.calls
            /\ UNCHANGED <<calendar, booking, started>>

\* Mutant of CallFindAvailableBySpecificDate: the query holds the hour that
\* starts at specific_date by writing an event.
CallFindAvailableBySpecificDateWrites ==
    \E d \in DateInputs, fail_at \in FailAtInputs :
        LET r == FindAvailableBySpecificDate(calendar, d, fail_at)
        IN  /\ pc = "idle"
            /\ pc' = "done"
            /\ op' = "find_available_by_specific_date"
            /\ args' = [NoArgs EXCEPT !.a = d, !.fail_at = fail_at]
            /\ result' = r.result
            /\ calls' = r.calls
            /\ calendar' = calendar \cup {[start |-> d, end |-> d + 3600]}
            /\ UNCHANGED <<booking, started>>

\* find_available_by_specific_date(specific_date)
CallFindAvailableBySpecificDate ==
    \E d \in DateInputs, fail_at \in FailAtInputs :
        LET r == FindAvailableBySpecificDate(calendar, d, fail_at)
        IN  /\ pc = "idle"
            /\ pc' = "done"
            /\ op' = "find_available_by_specific_date"
            /\ args' = [NoArgs EXCEPT !.a = d, !.fail_at = fail_at]
            /\ result' = r.result
            /\ calls' = r.calls
            /\ UNCHANGED <<calendar, booking, started>>

\* find_available_by_date_range(start_date, end_date)
CallFindAvailableByDateRange ==
    \E start_date \in DateInputs, end_date \in DateInputs,
       fail_at \in FailAtInputs :
        LET r == FindAvailableByDateRange(calendar, start_date, end_date, fail_at)
        IN  /\ pc = "idle"
            /\ pc' = "done"
            /\ op' = "find_available_by_date_range"
            /\ args' = [NoArgs EXCEPT !.a = start_date, !.b = end_date,
                                      !.fail_at = fail_at]
            /\ result' = r.result
            /\ calls' = r.calls
            /\ UNCHANGED <<calendar, booking, started>>

\* find_available_without_date(), called when datetime.now() reads now
CallFindAvailableWithoutDate ==
    \E now \in DateInputs, fail_at \in FailAtInputs :
        LET r == FindAvailableWithoutDate(calendar, now, fail_at)
        IN  /\ pc = "idle"
            /\ pc' = "done"
            /\ op' = "find_available_without_date"
            /\ args' = [NoArgs EXCEPT !.a = now, !.fail_at = fail_at]
            /\ result' = r.result
            /\ calls' = r.calls
            /\ UNCHANGED <<calendar, booking, started>>

\* The tool node hands the outcome to the agent, which may call again.
ToolReturn ==
    /\ pc = "done"
    /\ pc' = "idle"
    /\ op' = "none"
    /\ args' = NoArgs
    /\ result' = NoResult
    /\ calls' = <<>>
    /\ UNCHANGED <<calendar, booking, started>>

Next ==
    \/ CallCheckValidDateAndHourRange
    \/ CallListAvailableEvents
    \/ CallFindAvailableSlotsAfterDate
    \/ CallFindAvailableBySpecificDate
    \/ CallFindAvailableByDateRange
    \/ CallFindAvailableWithoutDate
    \/ ToolReturn

Spec == Init /\ [][Next]_vars

\* confirmation_meeting(time_min, time_max, invite_email, titre, mode) by
\* caller c, from its start to its return or to its patch request.
ConfirmSearch(c) ==
    \E w \in BookingWindows, invite_email \in EmailInputs,
       titre \in TitleInputs, mode \in ModeInputs, list_ok \in BOOLEAN :
        LET r == SearchAndPrepare(calendar, w.start, w.end, invite_email,
                                  titre, mode, list_ok)
        IN  /\ booking[c].pc = "idle"
            /\ started < MaxBookings
            /\ started' = started + 1
            /\ booking' = [booking EXCEPT ![c] =
                   [pc |-> r.pc,
                    args |-> [time_min |-> w.start, time_max |-> w.end,
                              invite_email |-> invite_email, titre |-> titre,
                              mode |-> mode],
                    chosen |-> r.chosen,
                    body_patch |-> r.body_patch,
                    result |-> r.result]]
            /\ UNCHANGED <<calendar, pc, op, args, result, calls>>

\* Mutant of ConfirmPatch: the patch is refused when the event is no longer
\* titled "Available".
ConfirmPatchIfStillAvailable(c) ==
    \E patch_ok \in BOOLEAN :
        LET still == \E ev \in calendar :
                        ev.id = booking[c].chosen.id /\ ev.summary = "Available"
        IN  /\ booking[c].pc = "patching"
            /\ IF patch_ok /\ still
               THEN /\ calendar' = PatchEvent(calendar, booking[c].chosen.id,
                                              booking[c].body_patch)
                    /\ booking' = [booking EXCEPT ![c].pc = "done",
                                                  ![c].result = Success]
               ELSE /\ calendar' = calendar
                    /\ booking' = [booking EXCEPT ![c].pc = "done",
                                       ![c].result =
                                           IF patch_ok
                                           THEN Failure("No event found in the provided time window.")
                                           ELSE Failure("Error while updating event")]
            /\ UNCHANGED <<pc, op, args, result, calls, started>>

\* Step 5 of confirmation_meeting by caller c: the patch request and the
\* return.
ConfirmPatch(c) ==
    \E patch_ok \in BOOLEAN :
        /\ booking[c].pc = "patching"
        /\ IF patch_ok
           THEN /\ calendar' = PatchEvent(calendar, booking[c].chosen.id,
                                          booking[c].body_patch)
                /\ booking' = [booking EXCEPT ![c].pc = "done",
                                              ![c].result = Success]
           ELSE /\ calendar' = calendar
                /\ booking' = [booking EXCEPT ![c].pc = "done",
                                   ![c].result =
                                       Failure("Error while updating event")]
        /\ UNCHANGED <<pc, op, args, result, calls, started>>

\* The tool node hands the outcome of caller c to its agent.
ConfirmReturn(c) ==
    /\ booking[c].pc = "done"
    /\ booking' = [booking EXCEPT ![c] = NoBooking]
    /\ UNCHANGED <<calendar, pc, op, args, result, calls, started>>

InitBooking ==
    /\ calendar \in BookingCalendars
    /\ pc = "idle"
    /\ op = "none"
    /\ args = NoArgs
    /\ result = NoResult
    /\ calls = <<>>
    /\ booking = [c \in Callers |-> NoBooking]
    /\ started = 0

NextBooking ==
    \E c \in Callers :
        \/ ConfirmSearch(c)
        \/ ConfirmPatch(c)
        \/ ConfirmReturn(c)

SpecBooking == InitBooking /\ [][NextBooking]_vars

\* ================================================================== claims
Elems(seq) == { seq[i] : i \in DOMAIN seq }

\* Two intervals share more than a boundary point.
Overlap(x, y) == x.start < y.end /\ y.start < x.end
Inside(x, w) == w.start <= x.start /\ x.end <= w.end
SingleDay(w) == DateOf(w.start) = DateOf(w.end) /\ w.start < w.end

\* A busy interval widened by 30 minutes on both ends.
Widened(b) == [start |-> b.start - 30 * 60, end |-> b.end + 30 * 60]
\* An interval cut to a window.
CutTo(x, w) == [start |-> Max(x.start, w.start), end |-> Min(x.end, w.end)]

\* The calls of _list_available_events that reached _compute_free_slots.
SweptCalls == { c \in Elems(calls) : c.windows # <<>> }

\* The premise of C1: one window of a single day, the busy intervals
\* pairwise non-overlapping and inside it.
OneWindowBusyInside(c) ==
    /\ Len(c.windows) = 1
    /\ SingleDay(c.windows[1])
    /\ \A b \in Elems(c.busy_times) : b.start <= b.end /\ Inside(b, c.windows[1])
    /\ \A i, j \in DOMAIN c.busy_times :
          i < j => ~Overlap(c.busy_times[i], c.busy_times[j])

\* C1: for one window of a single day and pairwise non-overlapping busy
\* intervals inside it, the free slots are pairwise disjoint, lie in the
\* window, meet no widened busy interval, and together with the widened busy
\* intervals (cut to the window) cover the window without a gap.
C1_SlotsPartitionWindow ==
    \A c \in SweptCalls :
        OneWindowBusyInside(c) =>
            LET w == c.windows[1]
                free == c.candidates
                busy == { CutTo(Widened(b), w) : b \in Elems(c.busy_times) }
                points == {w.start} \cup { x.end : x \in Elems(free) \cup busy }
            IN  /\ \A i, j \in DOMAIN free : i < j => ~Overlap(free[i], free[j])
                /\ \A f \in Elems(free) : f.start < f.end /\ Inside(f, w)
                /\ \A f \in Elems(free) : \A b \in busy : ~Overlap(f, b)
                /\ \A p \in points :
                      (w.start <= p /\ p < w.end) =>
                          \E x \in Elems(free) \cup busy : x.start <= p /\ p < x.end

\* C1 witness: the sweep ran on one window with two busy intervals inside
\* it whose widened forms overlap, and returned two free slots.
C1_Witness ==
    /\ op = "_list_available_events"
    /\ \E c \in SweptCalls :
          /\ OneWindowBusyInside(c)
          /\ Len(c.busy_times) = 2
          /\ Overlap(Widened(c.busy_times[1]), Widened(c.busy_times[2]))
          /\ Len(c.candidates) = 2

\* C2 (as claimed): for every busy interval [s, e] inside a window, no free
\* slot returned by _compute_free_slots meets [s - 30 min, e + 30 min].
C2_NoSlotInBuffer ==
    \A c \in SweptCalls :
        \A b \in Elems(c.busy_times) : \A w \in Elems(c.windows) :
            (SingleDay(w) /\ Inside(b, w)) =>
                \A f \in Elems(c.candidates) : ~Overlap(f, Widened(b))

\* C3 (as claimed): a timestamp whose time of day is after end_hour:00 is
\* clamped to end_hour:00:00 of the same date.
C3_ClampsAfterEndHour ==
    (op = "_check_valid_date_and_hour_range" /\ args.a % 86400 > EndHour * 3600)
        => result.a = DateOf(args.a) * 86400 + EndHour * 3600

\* C4: a timestamp whose hour is below start_hour becomes start_hour:00:00
\* of the same date, and a timestamp at exactly end_hour:00:00 is returned
\* unchanged.
C4_ClampsBeforeStartHour ==
    op = "_check_valid_date_and_hour_range" =>
        /\ (args.a % 86400) \div 3600 < StartHour
              => result.a = DateOf(args.a) * 86400 + StartHour * 3600
        /\ args.a % 86400 = EndHour * 3600 => result.a = args.a

\* C4 witness: 08:30:15 on the Friday was clamped to 09:00:00.
C4_Witness ==
    /\ op = "_check_valid_date_and_hour_range"
    /\ args.a = At(4, 8, 30, 15)
    /\ result.a = At(4, 9, 0, 0)

\* C5: no slot returned by _list_available_events starts on a Saturday or a
\* Sunday.
C5_NoWeekendSlot ==
    \A c \in Elems(calls) :
        c.out.kind = "list" =>
            \A f \in Elems(c.out.slots) : (f.start \div 86400) % 7 \notin {5, 6}

\* C5 witness: the sweep produced a slot that starts on a weekend, and the
\* call returned other slots.
C5_Witness ==
    /\ op = "_list_available_events"
    /\ \E c \in SweptCalls :
          /\ \E f \in Elems(c.candidates) : WeekdayOf(f.start) >= 5
          /\ c.out.slots # <<>>

Duration(f) == f.end - f.start
StartsOnWeekday(f) == (f.start \div 86400) % 7 < 5

\* C6: the one-hour minimum is applied exactly when the sweep produced more
\* than 2 candidate slots: with more than 2 candidates the call returns the
\* weekday candidates of at least one hour, with at most 2 it returns every
\* weekday candidate whatever its length.
C6_DurationFilterOnlyAboveTwo ==
    \A c \in SweptCalls :
        LET LongWeekday(f) == StartsOnWeekday(f) /\ Duration(f) >= 3600
        IN  IF Len(c.candidates) > 2
            THEN c.out.slots = SelectSeq(c.candidates, LongWeekday)
            ELSE c.out.slots = SelectSeq(c.candidates, StartsOnWeekday)

\* C6 witness: three candidates of 2 h, 0.5 h and 3 h, of which the 2 h and
\* the 3 h slot are returned.
C6_Witness ==
    /\ op = "_list_available_events"
    /\ \E c \in SweptCalls :
          /\ Len(c.candidates) = 3
          /\ Duration(c.candidates[1]) = 2 * 3600
          /\ Duration(c.candidates[2]) = 1800
          /\ Duration(c.candidates[3]) = 3 * 3600
          /\ c.out.slots = <<c.candidates[1], c.candidates[3]>>

\* The calendar holds no event that meets the given day.
NoEventOn(date) ==
    \A ev \in calendar : ~(ev.start < (date + 1) * 86400 /\ ev.end > date * 86400)

\* The result is the single formatted slot 09:00:00 - 18:00:00 of the date.
OneSlotOfBusinessHours(date) ==
    /\ result.kind = "list"
    /\ Len(result.slots) = 1
    /\ result.slots[1].start =
          [date |-> date, hh |-> 9, mm |-> 0, ss |-> 0, z |-> "zone"]
    /\ result.slots[1].end =
          [date |-> date, hh |-> 18, mm |-> 0, ss |-> 0, z |-> "zone"]

\* C7 (as claimed): find_available_by_specific_date for a day with no events
\* (the free/busy fetch answering) returns exactly one slot, 09:00 to 18:00
\* of that day.
C7_EmptyDayOneSlot ==
    (/\ op = "find_available_by_specific_date"
     /\ calls[1].fetched
     /\ NoEventOn(DateOf(args.a)))
        => OneSlotOfBusinessHours(DateOf(args.a))

\* C7 (amended): find_available_by_specific_date for a weekday (Monday to
\* Friday) with no events, the free/busy fetch answering, returns exactly
\* one slot, 09:00 to 18:00 of that day.
C7_EmptyWeekdayOneSlot ==
    (/\ op = "find_available_by_specific_date"
     /\ calls[1].fetched
     /\ NoEventOn(DateOf(args.a))
     /\ WeekdayOf(args.a) < 5)
        => OneSlotOfBusinessHours(DateOf(args.a))

\* C7 witness: the operation was asked at 17:00 about the Monday, a day
\* without events in a calendar that holds events, and returned one slot.
C7_Witness ==
    /\ op = "find_available_by_specific_date"
    /\ args.a = At(7, 17, 0, 0)
    /\ calendar # {}
    /\ NoEventOn(7)
    /\ result.kind = "list"
    /\ Len(result.slots) = 1

\* C8 (as claimed): each of the three public query operations returns a
\* list of slots or a string and never raises, also when the free/busy
\* fetch fails.
C8_PublicQueriesNeverRaise ==
    op \in { "find_available_by_specific_date", "find_available_by_date_range",
             "find_available_without_date" }
        => result.kind \in {"list", "str"}

\* C9: _find_available_slots_after_date always returns a string, whether
\* its range query returns slots, returns none or raises; so does
\* find_available_by_specific_date when it falls through to the lookahead.
C9_LookaheadReturnsString ==
    /\ op = "_find_available_slots_after_date" => result.kind = "str"
    /\ (op = "find_available_by_specific_date" /\ Len(calls) = 2)
          => result.kind = "str"

\* C9 witness: the range query of the lookahead raised and the lookahead
\* returned a string.
C9_Witness ==
    /\ op = "_find_available_slots_after_date"
    /\ calls[1].out.kind = "raise"
    /\ result.kind = "str"

\* C10 (as claimed): _list_available_events raises only when the free/busy
\* fetch fails; with a fetch that succeeded it returns a list, whatever the
\* bounds.
C10_RaisesOnlyOnFetchFailure ==
    \A c \in Elems(calls) : c.fetched => c.out.kind = "list"

\* The calls of _list_available_events that returned a list of slots.
ListedCalls == { c \in SweptCalls : c.out.kind = "list" }

\* C11 (as claimed): no free slot returned by the range query overlaps a
\* busy interval returned by the free/busy fetch, whatever days the busy
\* interval covers and wherever it starts in its day.
C11_NoSlotOverlapsBusy ==
    \A c \in ListedCalls :
        \A slot \in Elems(c.out.slots) :
            \A b \in Elems(c.busy_times) : ~Overlap(slot, b)

\* C12 (as claimed): every free slot returned by the range query starts and
\* ends on one calendar day, with start_hour:00 <= start < end <= end_hour:00
\* of that day.
InBusinessHours(slot) ==
    /\ DateOf(slot.start) = DateOf(slot.end)
    /\ At(DateOf(slot.start), StartHour, 0, 0) <= slot.start
    /\ slot.start < slot.end
    /\ slot.end <= At(DateOf(slot.start), EndHour, 0, 0)

C12_SlotsInBusinessHours ==
    \A c \in ListedCalls :
        \A slot \in Elems(c.out.slots) : InBusinessHours(slot)

\* C18 (as claimed): find_available_without_date anchors its query at the
\* current time; at or after end_hour the anchor is start_hour:00 of the next
\* business day, never a Saturday or Sunday; before start_hour it is
\* start_hour:00 of the current day.
RECURSIVE NextBusinessDay(_)
NextBusinessDay(date) ==
    IF (date + 1) % 7 < 5 THEN date + 1 ELSE NextBusinessDay(date + 1)

ClaimedAnchor(now) ==
    IF HourOf(now) >= EndHour
    THEN At(NextBusinessDay(DateOf(now)), StartHour, 0, 0)
    ELSE IF HourOf(now) < StartHour
    THEN At(DateOf(now), StartHour, 0, 0)
    ELSE now

C18_AnchorsAtNextBusinessDay ==
    (pc = "done" /\ op = "find_available_without_date")
        => calls[1].time_min = ClaimedAnchor(args.a)

\* The position, among the calls of find_available_by_date_range, of the
\* range query whose outcome decides the operation: the second query when
\* the clamped bounds have the same date, the first otherwise.
RangeQueryIndex ==
    IF DateOf(CheckValidDateAndHourRange(args.a))
         = DateOf(CheckValidDateAndHourRange(args.b))
    THEN 2 ELSE 1

RangeQueryEmpty ==
    /\ pc = "done"
    /\ op = "find_available_by_date_range"
    /\ Len(calls) >= RangeQueryIndex
    /\ calls[RangeQueryIndex].out.kind = "list"
    /\ calls[RangeQueryIndex].out.slots = <<>>

\* C19: when the range query of find_available_by_date_range yields no
\* slots, the next and last call is the lookahead's query anchored at the
\* clamped end date, and the operation returns the fixed 'No available slots
\* were found between <start_date> and <end_date>.' string, with no slot in
\* it, whatever the lookahead found.
C19_EmptyRangeFixedString ==
    RangeQueryEmpty =>
        /\ Len(calls) = RangeQueryIndex + 1
        /\ calls[Len(calls)].time_min = CheckValidDateAndHourRange(args.b)
        /\ result = StrResult("No available slots were found between",
                              args.a, args.b, <<>>)

\* The range query is empty and the lookahead found slots.
C19_Witness ==
    /\ RangeQueryEmpty
    /\ Len(calls) = RangeQueryIndex + 1
    /\ IsNonEmptyList(calls[Len(calls)].out)
    /\ result.slots = <<>>

\* C20 (as claimed): _list_available_events builds exactly one window per
\* calendar day from the day of time_min to the day of time_max inclusive,
\* each on its own date, the first starting at the clamped time_min, the
\* last ending at the clamped time_max, every other bound at start_hour:00
\* or end_hour:00, whatever the times of day of the two bounds.
OneWindowPerDay(c) ==
    LET n == DateOf(c.end_time) - DateOf(c.start_time) + 1
        date(i) == DateOf(c.start_time) + i - 1
    IN  /\ Len(c.windows) = n
        /\ \A i \in DOMAIN c.windows :
              /\ DateOf(c.windows[i].start) = date(i)
              /\ DateOf(c.windows[i].end) = date(i)
              /\ c.windows[i].start =
                    IF i = 1 THEN c.start_time ELSE At(date(i), StartHour, 0, 0)
              /\ c.windows[i].end =
                    IF i = n THEN c.end_time ELSE At(date(i), EndHour, 0, 0)

C20_OneWindowPerCalendarDay ==
    \A c \in SweptCalls : OneWindowPerDay(c)

\* ------------------------------------------------ claims on the booking
\* The window a caller asked for.
RequestedWindow(c) ==
    [start |-> booking[c].args.time_min, end |-> booking[c].args.time_max]

\* The event of the calendar with the given id.
EventById(cal, id) == CHOOSE ev \in cal : ev.id = id

\* How many entries of an attendee list have the e-mail, whatever the case.
CountEmail(attendees, email) ==
    Cardinality({ i \in DOMAIN attendees : Lower(attendees[i]) = Lower(email) })

\* C13 (as claimed): a booking request for a window that overlaps an
\* existing event of the same day other than the one the request matches is
\* rejected: the call does not end with success.
C13_OverlappingRequestRejected ==
    \A c \in Callers :
        ( /\ booking[c].pc = "done"
          /\ \E ev \in calendar :
                /\ ev.id # booking[c].chosen.id
                /\ ev.summary # "Available"
                /\ DateOf(ev.start) = DateOf(booking[c].args.time_min)
                /\ Overlap(ev, RequestedWindow(c)) )
        => ~booking[c].result.success

\* Caller c2 begins, in this step, a call with the arguments of the call
\* that caller c1 has ended with success, and its search is answered.
SecondCallAfter(c1, c2) ==
    /\ c1 # c2
    /\ booking[c1].pc = "done"
    /\ booking[c1].result.success
    /\ booking[c2].pc = "idle"
    /\ booking'[c2].pc # "idle"
    /\ booking'[c2].args = booking[c1].args
    /\ booking'[c2].result.error # "Error while searching events"

\* C14 (as claimed): a second booking call in sequence with the same title,
\* date and invitee goes on to update the event, and the attendee list of
\* its update has the invitee exactly once.
C14_SecondCallUpdates ==
    [][ \A c1, c2 \in Callers :
            SecondCallAfter(c1, c2) =>
                /\ booking'[c2].pc = "patching"
                /\ CountEmail(booking'[c2].body_patch.attendees,
                              booking'[c2].args.invite_email) = 1 ]_vars

\* An event of the requested day titled exactly "Available" whose start and
\* end have the date, hour and minute of the requested window.
MatchesRequest(ev, a) ==
    /\ ev.summary = "Available"
    /\ DateOf(ev.start) = DateOf(a.time_min)
    /\ DateOf(ev.end) = DateOf(a.time_max)
    /\ <<HourOf(ev.start), MinuteOf(ev.start)>>
         = <<HourOf(a.time_min), MinuteOf(a.time_min)>>
    /\ <<HourOf(ev.end), MinuteOf(ev.end)>>
         = <<HourOf(a.time_max), MinuteOf(a.time_max)>>

FirstMatch(ev, cal, a) ==
    /\ ev \in cal
    /\ MatchesRequest(ev, a)
    /\ \A other \in cal : MatchesRequest(other, a) => ev.start <= other.start

\* The search of caller c, in one step: no write; the call goes on to the
\* patch only with the first matching event of the calendar and a mode that
\* is 'online' or 'presentiel', and otherwise returns success=False.
SearchStep(c) ==
    (booking[c].pc = "idle" /\ booking'[c].pc # "idle") =>
        /\ calendar' = calendar
        /\ booking'[c].pc \in {"patching", "done"}
        /\ booking'[c].pc = "patching" =>
              /\ FirstMatch(booking'[c].chosen, calendar, booking'[c].args)
              /\ StripLower(booking'[c].args.mode) \in {"online", "presentiel"}
        /\ booking'[c].pc = "done" => ~booking'[c].result.success
        /\ ( \/ ~\E ev \in calendar : MatchesRequest(ev, booking'[c].args)
             \/ booking'[c].result.error = "Error while searching events"
             \/ StripLower(booking'[c].args.mode) \notin {"online", "presentiel"} )
           => booking'[c].pc = "done"

\* The patch of caller c, in one step: on success only the chosen event
\* changes, on failure nothing does.
PatchStep(c) ==
    (booking[c].pc = "patching" /\ booking'[c].pc # "patching") =>
        /\ booking'[c].pc = "done"
        /\ \A ev \in calendar : ev.id # booking[c].chosen.id => ev \in calendar'
        /\ Cardinality(calendar') = Cardinality(calendar)
        /\ ~booking'[c].result.success => calendar' = calendar

\* C15: confirmation_meeting writes to at most one event per call, the first
\* event in start-time order of the requested day that its listing shows
\* titled exactly "Available" with the date, hour and minute of the
\* requested window; when there is none, when the search fails or when the
\* mode is neither 'online' nor 'presentiel' it returns success=False
\* without a patch; a call that returns success=False leaves the calendar
\* as it is, and the calendar changes in patch steps only.
C15_PatchesOnlyFirstAvailable ==
    [][ /\ \A c \in Callers : SearchStep(c) /\ PatchStep(c)
        /\ calendar' # calendar =>
              \E c \in Callers :
                  /\ booking[c].pc = "patching"
                  /\ booking'[c].result.success ]_vars

\* A call has succeeded on the first of two matching events and the second
\* is as it was.
C15_Witness ==
    \E c \in Callers :
        /\ booking[c].pc = "done"
        /\ booking[c].result.success
        /\ booking[c].chosen.id = 1
        /\ booking[c].args.titre # "Available"
        /\ EventById(calendar, 1).summary = booking[c].args.titre
        /\ \E ev \in calendar : ev.id = 2 /\ ev \in BookingPool

\* C16: the attendee list a successful confirmation_meeting writes is the
\* list the call read from the event, unchanged and in order, followed by
\* the invitee when no attendee read has the invitee's e-mail whatever the
\* case, so that the invitee is in the list exactly once.
C16_AttendeesMerged ==
    [][ \A c \in Callers :
            ( /\ booking[c].pc = "patching"
              /\ booking'[c].pc = "done"
              /\ booking'[c].result.success ) =>
                LET old == booking[c].chosen.attendees
                    invitee == booking[c].args.invite_email
                    new == EventById(calendar', booking[c].chosen.id).attendees
                IN  /\ CountEmail(new, invitee) = 1
                    /\ IF CountEmail(old, invitee) = 0
                       THEN new = Append(old, invitee)
                       ELSE new = old ]_vars

\* A call has succeeded whose invitee was among the attendees in another
\* case, and the list is as it was.
C16_Witness ==
    \E c \in Callers :
        /\ booking[c].pc = "done"
        /\ booking[c].result.success
        /\ booking[c].args.invite_email = "bob@x.com"
        /\ booking[c].chosen.attendees = <<"amy@x.com", "Bob@x.com">>
        /\ EventById(calendar, booking[c].chosen.id).attendees
             = <<"amy@x.com", "Bob@x.com">>

\* Two calls have read the same state of the same matching event and each
\* has sent its patch, neither patch being refused by the service.
BothPatched(c1, c2) ==
    /\ c1 # c2
    /\ booking[c1].pc = "done"
    /\ booking[c2].pc = "done"
    /\ booking[c1].chosen.id # 0
    /\ booking[c1].chosen = booking[c2].chosen
    /\ booking[c1].body_patch # NoBody
    /\ booking[c2].body_patch # NoBody
    /\ booking[c1].result.error # "Error while updating event"
    /\ booking[c2].result.error # "Error while updating event"

\* C17: nothing is checked between the listing and the patch: two
\* confirmation_meeting calls that have listed the same "Available" event
\* both return success=True once their patches are accepted, whatever the
\* other call has done to the event in between.
C17_NoCheckBeforePatch ==
    \A c1, c2 \in Callers :
        BothPatched(c1, c2) =>
            booking[c1].result.success /\ booking[c2].result.success

\* Two calls with different invitees and new titles have both returned
\* success=True for the same event that each listed as "Available": the
\* listing of each came before the patch of the other.
C17_Witness ==
    /\ BothPatched(1, 2)
    /\ booking[1].result.success
    /\ booking[2].result.success
    /\ booking[1].chosen.summary = "Available"
    /\ booking[1].args.titre # "Available"
    /\ booking[2].args.titre # "Available"
    /\ booking[1].args.invite_email # booking[2].args.invite_email

\* ------------------------------------------------ claims on the lookahead
\* The dates after date `from` up to and including date `to` that are
\* weekdays.
WeekdaysBetween(from, to) ==
    { d \in (from + 1)..to : WeekdayOf(Days(d)) < 5 }

\* The query of a lookahead call: its range starts at the clamped
\* specific_date and ends where the loop and the replace of the hour put it.
LookaheadCall ==
    /\ pc = "done"
    /\ op = "_find_available_slots_after_date"
    /\ args.n >= 1

\* C21: for every start date and every number_of_days >= 1 the loop of
\* _find_available_slots_after_date ends, after at most number_of_days
\* weekdays and the weekend days between them, and the queried range ends at
\* end_hour:00 of a weekday such that exactly number_of_days weekdays lie
\* after the clamped start date up to and including that day.
C21_EndsOnNthWeekday ==
    LookaheadCall =>
        LET start_date == DateOf(CheckValidDateAndHourRange(args.a))
            end_of_day == calls[1].time_max
            end_date == DateOf(end_of_day)
        IN  /\ calls[1].time_min = CheckValidDateAndHourRange(args.a)
            /\ end_of_day = At(end_date, EndHour, 0, 0)
            /\ WeekdayOf(end_of_day) < 5
            /\ Cardinality(WeekdaysBetween(start_date, end_date)) = args.n
            /\ end_date - start_date <= args.n + 2 * ((args.n \div 5) + 1)

\* A lookahead of seven business days from a Saturday: the range crosses
\* two weekends.
C21_Witness ==
    /\ LookaheadCall
    /\ args.n = DefaultNumberOfDays
    /\ WeekdayOf(args.a) = 5
    /\ DateOf(calls[1].time_max) - DateOf(args.a) > args.n

\* ------------------------------------------------ claims on the fetch
\* The events of the calendar that end on the first requested day of call c
\* before its start_time, and less than the buffer before it.
EndedShortlyBefore(c) ==
    { ev \in calendar :
        /\ DateOf(ev.end) = DateOf(c.start_time)
        /\ ev.end < c.start_time
        /\ c.start_time < ev.end + BufferMinutes * 60 }

\* C22 (as claimed): the free/busy fetch of _list_available_events starts at
\* 00:00 of the first requested day, so that an event that ended shortly
\* before time_min on that day is among the fetched busy intervals and no
\* returned slot starts within its buffer.
C22_FetchFromStartOfFirstDay ==
    \A c \in ListedCalls :
        \A ev \in EndedShortlyBefore(c) :
            /\ \E b \in Elems(c.busy_times) : b.end = ev.end
            /\ \A slot \in Elems(c.out.slots) : ~Overlap(slot, Widened(ev))

\* C23 (as claimed): whatever the windows and the busy intervals, the list
\* returned by _compute_free_slots is ordered by strictly increasing start,
\* every slot has start < end, and no two slots overlap.
C23_SlotsOrderedDisjoint ==
    \A c \in SweptCalls :
        /\ \A i \in DOMAIN c.candidates :
              c.candidates[i].start < c.candidates[i].end
        /\ \A i, j \in DOMAIN c.candidates :
              i < j =>
                  /\ c.candidates[i].start < c.candidates[j].start
                  /\ ~Overlap(c.candidates[i], c.candidates[j])

\* Caller c1 has ended a call with success and a title other than
\* "Available", the event is as that call left it, no other event of the
\* calendar matches the window, and caller c2 begins, in this step, a call
\* for the same window whose search is answered.
LaterCallSameWindow(c1, c2) ==
    /\ c1 # c2
    /\ booking[c1].pc = "done"
    /\ booking[c1].result.success
    /\ booking[c1].args.titre # "Available"
    /\ EventById(calendar, booking[c1].chosen.id).summary
         = booking[c1].body_patch.summary
    /\ EventById(calendar, booking[c1].chosen.id).attendees
         = booking[c1].body_patch.attendees
    /\ \A ev \in calendar :
          ev.id # booking[c1].chosen.id => ~MatchesRequest(ev, booking[c1].args)
    /\ booking[c2].pc = "idle"
    /\ booking'[c2].pc # "idle"
    /\ booking'[c2].args.time_min = booking[c1].args.time_min
    /\ booking'[c2].args.time_max = booking[c1].args.time_max
    /\ booking'[c2].result.error # "Error while searching events"

\* C24: after confirmation_meeting has succeeded for a window with a new
\* title other than "Available", a later call in sequence for the same
\* window, no other matching "Available" event being there, returns
\* success=False with the no-event error and sends no patch: the calendar,
\* and so the event's title and attendees, stay as the first call left them.
C24_AvailableSlotConsumed ==
    [][ \A c1, c2 \in Callers :
            LaterCallSameWindow(c1, c2) =>
                /\ booking'[c2].pc = "done"
                /\ booking'[c2].result
                     = Failure("No event found in the provided time window.")
                /\ booking'[c2].body_patch = NoBody
                /\ calendar' = calendar ]_vars

\* A call with another guest has been refused for the window that the first
\* call booked, and the event has the first call's title and guest.
C24_Witness ==
    /\ booking[1].pc = "done"
    /\ booking[1].result.success
    /\ booking[1].args.titre # "Available"
    /\ booking[2].pc = "done"
    /\ booking[2].result = Failure("No event found in the provided time window.")
    /\ booking[2].args.time_min = booking[1].args.time_min
    /\ booking[2].args.invite_email # booking[1].args.invite_email
    /\ EventById(calendar, booking[1].chosen.id).summary = booking[1].args.titre
    /\ EventById(calendar, booking[1].chosen.id).attendees
         = booking[1].body_patch.attendees

\* ------------------------------------------------ claims on the queries
\* What a query operation returns for its arguments, the current time (the
\* argument of find_available_without_date), the calendar and the answers of
\* the service; `other` for the operations that are not queries of slots.
QueryOutcome(cal, o, a, other) ==
    CASE o = "find_available_by_specific_date" ->
             FindAvailableBySpecificDate(cal, a.a, a.fail_at).result
      [] o = "find_available_by_date_range" ->
             FindAvailableByDateRange(cal, a.a, a.b, a.fail_at).result
      [] o = "find_available_without_date" ->
             FindAvailableWithoutDate(cal, a.a, a.fail_at).result
      [] o = "_find_available_slots_after_date" ->
             FindAvailableSlotsAfterDate(cal, a.a, a.n, 1, a.fail_at).result
      [] OTHER -> other

\* Two range queries of one operation with the same bounds, both answered by
\* the service, fetched the same busy intervals and returned the same.
SameQuerySameAnswer(log) ==
    \A i, j \in DOMAIN log :
        ( /\ log[i].time_min = log[j].time_min
          /\ log[i].time_max = log[j].time_max
          /\ log[i].fetched
          /\ log[j].fetched ) => log[i] = log[j]

====
